---- MODULE Spec2Model ----
(***************************************************************************)
(* Model of MergeTreeDataPartWriterCompact: the writer of the compact      *)
(* part format (src/Storages/MergeTree/MergeTreeDataPartWriterCompact.cpp).*)
(* One action per entry point: write, fillChecksums, finish.  Everything   *)
(* an entry point calls is computed by the operators below, in the order   *)
(* of the source.                                                          *)
(***************************************************************************)
EXTENDS Integers, Sequences, FiniteSets, TLC

\* ---------------------------------------------------------------- bounds
\* total number of rows passed to write() over one run
MaxRows == 6
\* largest block passed to one write() call
MaxBlockRows == 4
\* largest target granule size (index_granularity_for_block)
MaxG == 3

\* sizeof(UInt64): every field of the marks file is one little-endian UInt64
U64Bytes == 8

\* the null CompressedStreamPtr (prev_stream before the first getter call)
NoStream == 0

\* ---------------------------------------------------------------- schema
\* A column is its name and the sub-streams its serialization touches, in
\* the order in which the serialization asks the getter for them.  codec is
\* the identity hash of the codec resolved for the sub-stream, width the
\* number of bytes the serialization writes per row into it.
Sub(name, codec, width) == [name |-> name, codec |-> codec, width |-> width]
Col(name, subs) == [name |-> name, subs |-> subs]

\* one column, one sub-stream
SchemaSingle == << Col("id", << Sub("id", 1, 1) >>) >>
\* a and b share codec 1, c has codec 2; b's sub-streams alternate 2,1,2
SchemaShared ==
    << Col("a", << Sub("a", 1, 1) >>),
       Col("b", << Sub("b.null", 2, 1), Sub("b", 1, 2), Sub("b.dict", 2, 0), Sub("b.idx", 2, 1) >>),
       Col("c", << Sub("c", 2, 1) >>) >>
\* Nested columns n.x and n.y share the offsets sub-stream n.size0; the
\* codec description of n.y would resolve it to a codec of its own (3)
SchemaNested ==
    << Col("n.x", << Sub("n.size0", 1, 1), Sub("n.x", 1, 1) >>),
       Col("n.y", << Sub("n.size0", 3, 1), Sub("n.y", 2, 1) >>) >>
Schemas == { << >>, SchemaSingle, SchemaShared, SchemaNested }

VARIABLES
    columns_list,          \* the schema, fixed at construction
    with_final_mark,       \* settings: write the trailing synthetic mark
    marks_compressed,      \* index_granularity_info.mark_type.compressed
    rewrite_primary_key,   \* settings.rewrite_primary_key
    targets,               \* the values computeIndexGranularity can return
    compressed_streams,    \* stream name -> codec hash of its stream
    streams_by_codec,      \* codec hash -> state of its CompressedStream
    stream_order,          \* iteration order of the streams_by_codec map
    index_granularity,     \* the granularity plan: rows of every mark
    current_mark,          \* getCurrentMark()
    columns_buffer,        \* columns_buffer.size(): rows accumulated
    rows_received,         \* rows of all blocks passed to write()
    input_blocks,          \* rows of the blocks a scenario has passed to write()
    granules_to_write,     \* a getGranulesToWrite call on its own: last_block, result
    data_written,
    granules_written,      \* granules handed to writeDataBlock so far
    plain_count,           \* plain_hashing.count()
    marks_out,             \* fields written to the marks file
    data_blocks,           \* compressed blocks written to the data file
    serialized,            \* row ranges handed to the serialization
    offsets_ok,            \* no offset()==0 assertion has failed
    events,                \* finalization calls made so far, in order
    checksums,             \* what addToChecksums recorded
    error,                 \* the exception that left the writer, if any
    phase                  \* "open", "checksummed", "finished", "failed"

config == << columns_list, with_final_mark, marks_compressed, rewrite_primary_key,
             targets, compressed_streams, stream_order >>
vars == << columns_list, with_final_mark, marks_compressed, rewrite_primary_key,
           targets, compressed_streams, streams_by_codec, stream_order,
           index_granularity, current_mark, columns_buffer, rows_received,
           input_blocks, granules_to_write, data_written, granules_written, plain_count, marks_out, data_blocks,
           serialized, offsets_ok, events, checksums, error, phase >>

\* a call made during finalization, and the exception that ended an entry point
Ev(op, buf, codec) == [op |-> op, buf |-> buf, codec |-> codec]
Fault(kind, at) == [kind |-> kind, at |-> at]
NoError == Fault("none", Ev("none", "none", 0))

\* ------------------------------------------------------------ construction
NewStream == [offset |-> 0, count |-> 0, tags |-> {}]

\* addStreams with a name that is already present registered again
RECURSIVE addStreams_LastWins(_, _, _)
addStreams_LastWins(names, column, k) ==
    IF k > Len(column.subs) THEN names
    ELSE LET s == column.subs[k]
         IN addStreams_LastWins((s.name :> s.codec) @@ names, column, k + 1)

\* addStreams: one callback call per sub-stream of the column
RECURSIVE addStreams(_, _, _)
addStreams(names, column, k) ==
    IF k > Len(column.subs) THEN names
    ELSE LET s == column.subs[k]
         IN IF s.name \in DOMAIN names
            THEN addStreams(names, column, k + 1)
            ELSE addStreams(names @@ (s.name :> s.codec), column, k + 1)

\* the constructor's loop over columns_list
RECURSIVE Construct(_, _, _)
Construct(names, columns, i) ==
    IF i > Len(columns) THEN names
    ELSE Construct(addStreams(names, columns[i], 1), columns, i + 1)

EmptyMap == [x \in {} |-> 0]
Range(f) == { f[x] : x \in DOMAIN f }
Orders(S) == { o \in [1..Cardinality(S) -> S] : Range(o) = S }

\* ----------------------------------------------------- granularity plan
RECURSIVE Sum(_)
Sum(s) == IF s = << >> THEN 0 ELSE Head(s) + Sum(Tail(s))

getMarksCount(ig) == Len(ig)
getMarkRows(ig, mark) == ig[mark + 1]
appendMark(ig, rows) == Append(ig, rows)
popMark(ig) == SubSeq(ig, 1, Len(ig) - 1)
addRowsToLastMark(ig, rows) ==
    IF ig = << >> THEN << rows >> ELSE [ig EXCEPT ![Len(ig)] = @ + rows]

\* the loop with its short remainder always made a mark of its own
RECURSIVE fillIndexGranularityLoop_NeverExtends(_, _, _, _, _)
fillIndexGranularityLoop_NeverExtends(ig, current_row, index_offset, index_granularity_for_block, rows_in_block) ==
    IF current_row >= rows_in_block THEN ig
    ELSE LET rows_left_in_block == rows_in_block - current_row
             ig1 == IF /\ rows_left_in_block < index_granularity_for_block
                       /\ (rows_in_block >= index_granularity_for_block \/ index_offset # 0)
                    THEN appendMark(ig, rows_left_in_block)
                    ELSE appendMark(ig, index_granularity_for_block)
         IN fillIndexGranularityLoop_NeverExtends(ig1, current_row + index_granularity_for_block,
                                     index_offset, index_granularity_for_block, rows_in_block)

\* the loop with a short block added to the last mark even when it is the
\* first block of a mark
RECURSIVE fillIndexGranularityLoop_ExtendsWritten(_, _, _, _, _)
fillIndexGranularityLoop_ExtendsWritten(ig, current_row, index_offset, index_granularity_for_block, rows_in_block) ==
    IF current_row >= rows_in_block THEN ig
    ELSE LET rows_left_in_block == rows_in_block - current_row
             ig1 == IF rows_left_in_block < index_granularity_for_block
                    THEN IF rows_left_in_block * 2 >= index_granularity_for_block
                         THEN appendMark(ig, rows_left_in_block)
                         ELSE addRowsToLastMark(ig, rows_left_in_block)
                    ELSE appendMark(ig, index_granularity_for_block)
         IN fillIndexGranularityLoop_ExtendsWritten(ig1, current_row + index_granularity_for_block,
                                     index_offset, index_granularity_for_block, rows_in_block)

\* the loop with a remainder of exactly half the target added to the last mark
RECURSIVE fillIndexGranularityLoop_HalfIsShort(_, _, _, _, _)
fillIndexGranularityLoop_HalfIsShort(ig, current_row, index_offset, index_granularity_for_block, rows_in_block) ==
    IF current_row >= rows_in_block THEN ig
    ELSE LET rows_left_in_block == rows_in_block - current_row
             ig1 == IF /\ rows_left_in_block < index_granularity_for_block
                       /\ (rows_in_block >= index_granularity_for_block \/ index_offset # 0)
                    THEN IF rows_left_in_block * 2 > index_granularity_for_block
                         THEN appendMark(ig, rows_left_in_block)
                         ELSE addRowsToLastMark(ig, rows_left_in_block)
                    ELSE appendMark(ig, index_granularity_for_block)
         IN fillIndexGranularityLoop_HalfIsShort(ig1, current_row + index_granularity_for_block,
                                     index_offset, index_granularity_for_block, rows_in_block)

RECURSIVE fillIndexGranularityLoop(_, _, _, _, _)
fillIndexGranularityLoop(ig, current_row, index_offset, index_granularity_for_block, rows_in_block) ==
    IF current_row >= rows_in_block THEN ig
    ELSE LET rows_left_in_block == rows_in_block - current_row
             ig1 == IF /\ rows_left_in_block < index_granularity_for_block
                       /\ (rows_in_block >= index_granularity_for_block \/ index_offset # 0)
                    THEN IF rows_left_in_block * 2 >= index_granularity_for_block
                         THEN appendMark(ig, rows_left_in_block)
                         ELSE addRowsToLastMark(ig, rows_left_in_block)
                    ELSE appendMark(ig, index_granularity_for_block)
         IN fillIndexGranularityLoop(ig1, current_row + index_granularity_for_block,
                                     index_offset, index_granularity_for_block, rows_in_block)

fillIndexGranularityImpl(ig, index_offset, index_granularity_for_block, rows_in_block) ==
    fillIndexGranularityLoop(ig, index_offset, index_offset, index_granularity_for_block, rows_in_block)

\* fillIndexGranularity without the rows the current mark still waits for
fillIndexGranularity_NoOffset(ig, mark, buffered, index_granularity_for_block, rows_in_block) ==
    fillIndexGranularityImpl(ig, 0, index_granularity_for_block, rows_in_block)

fillIndexGranularity(ig, mark, buffered, index_granularity_for_block, rows_in_block) ==
    LET index_offset == IF getMarksCount(ig) > mark
                        THEN getMarkRows(ig, mark) - buffered
                        ELSE 0
    IN fillIndexGranularityImpl(ig, index_offset, index_granularity_for_block, rows_in_block)

\* ------------------------------------------------------- getGranulesToWrite
Granule(start_row, rows_to_write, mark_number, is_complete) ==
    [start_row |-> start_row, rows_to_write |-> rows_to_write,
     mark_number |-> mark_number, mark_on_start |-> TRUE, is_complete |-> is_complete]

Min(a, b) == IF a <= b THEN a ELSE b

\* the loop with the short-rows check made for the last block too
RECURSIVE granulesLoop_IgnoresLastBlock(_, _, _, _, _, _)
granulesLoop_IgnoresLastBlock(ig, block_rows, mark, last_block, current_row, result) ==
    IF current_row >= block_rows THEN [fault |-> "none", granules |-> result]
    ELSE IF mark >= getMarksCount(ig)
         THEN [fault |-> "no such mark", granules |-> result]
    ELSE LET expected_rows_in_mark == getMarkRows(ig, mark)
             rows_left_in_block == block_rows - current_row
             rows_to_write == Min(rows_left_in_block, expected_rows_in_mark)
         IN IF rows_left_in_block < expected_rows_in_mark
            THEN [fault |-> "LOGICAL_ERROR rows", granules |-> result]
            ELSE granulesLoop_IgnoresLastBlock(ig, block_rows, mark + 1, last_block,
                     current_row + rows_to_write,
                     Append(result, Granule(current_row, rows_to_write, mark,
                                            rows_left_in_block >= expected_rows_in_mark)))

\* the loop with every granule given the whole mark's rows
RECURSIVE granulesLoop_FullMarks(_, _, _, _, _, _)
granulesLoop_FullMarks(ig, block_rows, mark, last_block, current_row, result) ==
    IF current_row >= block_rows THEN [fault |-> "none", granules |-> result]
    ELSE IF mark >= getMarksCount(ig)
         THEN [fault |-> "no such mark", granules |-> result]
    ELSE LET expected_rows_in_mark == getMarkRows(ig, mark)
             rows_left_in_block == block_rows - current_row
             rows_to_write == expected_rows_in_mark
         IN IF rows_left_in_block < expected_rows_in_mark /\ ~last_block
            THEN [fault |-> "LOGICAL_ERROR rows", granules |-> result]
            ELSE granulesLoop_FullMarks(ig, block_rows, mark + 1, last_block,
                     current_row + rows_to_write,
                     Append(result, Granule(current_row, rows_to_write, mark,
                                            rows_left_in_block >= expected_rows_in_mark)))

\* the while loop; the result is the granules and the fault that ended it
RECURSIVE granulesLoop(_, _, _, _, _, _)
granulesLoop(ig, block_rows, mark, last_block, current_row, result) ==
    IF current_row >= block_rows THEN [fault |-> "none", granules |-> result]
    ELSE IF mark >= getMarksCount(ig)
         THEN [fault |-> "no such mark", granules |-> result]
    ELSE LET expected_rows_in_mark == getMarkRows(ig, mark)
             rows_left_in_block == block_rows - current_row
             rows_to_write == Min(rows_left_in_block, expected_rows_in_mark)
         IN IF rows_left_in_block < expected_rows_in_mark /\ ~last_block
            THEN [fault |-> "LOGICAL_ERROR rows", granules |-> result]
            ELSE granulesLoop(ig, block_rows, mark + 1, last_block,
                     current_row + rows_to_write,
                     Append(result, Granule(current_row, rows_to_write, mark,
                                            rows_left_in_block >= expected_rows_in_mark)))

getGranulesToWrite(ig, block_rows, mark, last_block) ==
    IF mark >= getMarksCount(ig)
    THEN [fault |-> "LOGICAL_ERROR mark", granules |-> << >>]
    ELSE granulesLoop(ig, block_rows, mark, last_block, 0, << >>)

\* ------------------------------------------------------------ data file
\* size of the compressed block a codec makes of n uncompressed bytes
CompressedSize(codec, n) == n + codec

\* w, once it has been computed (the recursions below evaluate every
\* intermediate writer state before they go on with it)
Computed(w) == w.plain >= 0

\* the writer's output state while one entry point runs
Writer ==
    [streams |-> streams_by_codec, plain |-> plain_count, marks |-> marks_out,
     blocks |-> data_blocks, serialized |-> serialized, offsets_ok |-> offsets_ok,
     data_written |-> data_written, granules_written |-> granules_written,
     prev_stream |-> NoStream, base |-> rows_received - columns_buffer]

\* streams whose current compressed block holds bytes not yet written out
Dirty(w) == { c \in DOMAIN w.streams : w.streams[c].offset # 0 }

\* hashing_buf.next(): ends the stream's compressed block, if it has bytes
hashing_buf_next(w, c) ==
    IF w.streams[c].offset = 0 THEN w
    ELSE [w EXCEPT !.plain = @ + CompressedSize(c, w.streams[c].offset),
                   !.blocks = Append(@, [stream |-> c, start |-> w.plain,
                                         size |-> CompressedSize(c, w.streams[c].offset),
                                         tags |-> w.streams[c].tags]),
                   !.streams[c].offset = 0,
                   !.streams[c].tags = {}]

\* the getter without the flush of the previous stream
stream_getter_NoRotate(w, stream_name) ==
    [w EXCEPT !.prev_stream = compressed_streams[stream_name]]

\* the stream_getter lambda of writeDataBlock
stream_getter(w, stream_name) ==
    LET result_stream == compressed_streams[stream_name]
    IN IF w.prev_stream # NoStream /\ w.prev_stream # result_stream
       THEN [hashing_buf_next(w, w.prev_stream)
                EXCEPT !.offsets_ok = @ /\ w.streams[result_stream].offset = 0,
                       !.prev_stream = result_stream]
       ELSE [w EXCEPT !.prev_stream = result_stream]

\* the serialization of one column's granule: for every sub-stream it asks
\* the getter for the sink and writes the rows' bytes into it
RECURSIVE serializeSubstreams(_, _, _, _, _)
serializeSubstreams(w, column, k, key, number_of_rows) ==
    IF Computed(w) /\ k > Len(column.subs) THEN w
    ELSE LET s == column.subs[k]
             w1 == stream_getter(w, s.name)
             c == w1.prev_stream
             n == number_of_rows * s.width
             w2 == IF n = 0 THEN w1
                   ELSE [w1 EXCEPT !.streams[c].offset = @ + n,
                                   !.streams[c].count = @ + n,
                                   !.streams[c].tags = @ \cup {key}]
         IN serializeSubstreams(w2, column, k + 1, key, number_of_rows)

\* the column's granule serialized from the first row of the block
writeColumnSingleGranule_FromBlockStart(w, column, key, from_row, number_of_rows) ==
    serializeSubstreams(
        [w EXCEPT !.serialized = Append(@, [column |-> key[1], mark |-> key[2],
                                            first |-> w.base,
                                            rows |-> number_of_rows])],
        column, 1, key, number_of_rows)

writeColumnSingleGranule(w, column, key, from_row, number_of_rows) ==
    serializeSubstreams(
        [w EXCEPT !.serialized = Append(@, [column |-> key[1], mark |-> key[2],
                                            first |-> w.base + from_row,
                                            rows |-> number_of_rows])],
        column, 1, key, number_of_rows)

\* ----------------------------------------------------------- marks file
MarkRecord(column, mark, file_offset, dirty, final) ==
    [kind |-> "record", column |-> column, mark |-> mark, file_offset |-> file_offset,
     block_offset |-> 0, rows |-> 0, dirty |-> dirty, final |-> final]
RowsField(mark, rows, dirty, final) ==
    [kind |-> "rows", column |-> 0, mark |-> mark, file_offset |-> 0,
     block_offset |-> 0, rows |-> rows, dirty |-> dirty, final |-> final]

\* the loop with the Mark Record written after the column's bytes
RECURSIVE writeGranuleColumns_RecordAfter(_, _, _)
writeGranuleColumns_RecordAfter(w, granule, i) ==
    IF Computed(w) /\ i > Len(columns_list) THEN w
    ELSE LET w1 == [w EXCEPT !.prev_stream = NoStream]
             w2 == writeColumnSingleGranule(w1, columns_list[i], << i, granule.mark_number >>,
                                            granule.start_row, granule.rows_to_write)
             w3 == hashing_buf_next(w2, w2.prev_stream)
             w4 == [w3 EXCEPT !.marks = Append(@, MarkRecord(i, granule.mark_number, w3.plain,
                                                             Dirty(w3), FALSE))]
         IN writeGranuleColumns_RecordAfter(w4, granule, i + 1)

\* the loop without the flush that follows a column's last sub-stream
RECURSIVE writeGranuleColumns_NoColumnFlush(_, _, _)
writeGranuleColumns_NoColumnFlush(w, granule, i) ==
    IF Computed(w) /\ i > Len(columns_list) THEN w
    ELSE LET w1 == [w EXCEPT !.prev_stream = NoStream,
                             !.marks = Append(@, MarkRecord(i, granule.mark_number, w.plain,
                                                            Dirty(w), FALSE))]
             w2 == writeColumnSingleGranule(w1, columns_list[i], << i, granule.mark_number >>,
                                            granule.start_row, granule.rows_to_write)
         IN writeGranuleColumns_NoColumnFlush(w2, granule, i + 1)

\* the loop over columns_list inside one granule
RECURSIVE writeGranuleColumns(_, _, _)
writeGranuleColumns(w, granule, i) ==
    IF Computed(w) /\ i > Len(columns_list) THEN w
    ELSE LET w1 == [w EXCEPT !.prev_stream = NoStream,
                             !.marks = Append(@, MarkRecord(i, granule.mark_number, w.plain,
                                                            Dirty(w), FALSE))]
             w2 == writeColumnSingleGranule(w1, columns_list[i], << i, granule.mark_number >>,
                                            granule.start_row, granule.rows_to_write)
             w3 == hashing_buf_next(w2, w2.prev_stream)
         IN writeGranuleColumns(w3, granule, i + 1)

\* the loop over granules
RECURSIVE writeGranules(_, _, _)
writeGranules(w, granules, g) ==
    IF Computed(w) /\ g > Len(granules) THEN w
    ELSE LET w0 == [w EXCEPT !.data_written = TRUE, !.granules_written = @ + 1]
             w1 == writeGranuleColumns(w0, granules[g], 1)
             w2 == [w1 EXCEPT !.marks = Append(@, RowsField(granules[g].mark_number,
                                                   granules[g].rows_to_write, Dirty(w1), FALSE))]
         IN writeGranules(w2, granules, g + 1)

writeDataBlock(w, granules) == writeGranules(w, granules, 1)

\* ------------------------------------------------------------------ Init
\* no getGranulesToWrite call is looked at on its own
NotCalled == [last_block |-> FALSE, fault |-> "not called", granules |-> << >>]

\* the writer the constructor leaves, for a schema, the settings and the
\* set gs of values computeIndexGranularity returns
Constructed(schema, fm, mc, rpk, gs) ==
      LET names == Construct(EmptyMap, schema, 1)
      IN \E order \in Orders(Range(names)) :
          /\ columns_list = schema
          /\ with_final_mark = fm
          /\ marks_compressed = mc
          /\ rewrite_primary_key = rpk
          /\ targets = gs
          /\ compressed_streams = names
          /\ streams_by_codec = [c \in Range(names) |-> NewStream]
          /\ stream_order = order
          /\ index_granularity = << >>
          /\ current_mark = 0
          /\ columns_buffer = 0
          /\ rows_received = 0
          /\ input_blocks = << >>
          /\ granules_to_write = NotCalled
          /\ data_written = FALSE
          /\ granules_written = 0
          /\ plain_count = 0
          /\ marks_out = << >>
          /\ data_blocks = << >>
          /\ serialized = << >>
          /\ offsets_ok = TRUE
          /\ events = << >>
          /\ checksums = << >>
          /\ error = NoError
          /\ phase = "open"

Init ==
    \E schema \in Schemas, fm \in BOOLEAN, mc \in BOOLEAN, rpk \in BOOLEAN, g \in 1..MaxG :
        Constructed(schema, fm, mc, rpk, {g})

\* ----------------------------------------------------------------- write
\* the writer extends the granularity plan itself on every block
compute_granularity == TRUE

\* the outputs of the writer after an entry point has produced w
Outputs(w) ==
    /\ streams_by_codec' = w.streams
    /\ plain_count' = w.plain
    /\ marks_out' = w.marks
    /\ data_blocks' = w.blocks
    /\ serialized' = w.serialized
    /\ offsets_ok' = w.offsets_ok
    /\ data_written' = w.data_written
    /\ granules_written' = w.granules_written

\* write() with the flush put off until the buffer holds more than the mark
write_FlushesWhenOver(index_granularity_for_block, rows) ==
    LET ig == IF compute_granularity
              THEN fillIndexGranularity(index_granularity, current_mark, columns_buffer,
                                        index_granularity_for_block, rows)
              ELSE index_granularity
        rows_in_buffer == columns_buffer + rows
        \* getMarkRows(getCurrentMark()) of a mark the plan does not have
        no_mark == current_mark >= getMarksCount(ig)
        current_mark_rows == IF no_mark THEN 0 ELSE getMarkRows(ig, current_mark)
        got == getGranulesToWrite(ig, rows_in_buffer, current_mark, FALSE)
    IN /\ index_granularity' = ig
       /\ rows_received' = rows_received + rows
       /\ UNCHANGED << config, events, checksums, granules_to_write >>
       /\ IF no_mark
          THEN /\ error' = Fault("no such mark", Ev("call", "getMarkRows", 0))
               /\ phase' = "failed"
               /\ columns_buffer' = rows_in_buffer
               /\ UNCHANGED << current_mark, data_written, granules_written,
                               streams_by_codec, plain_count, marks_out, data_blocks,
                               serialized, offsets_ok >>
          ELSE IF rows_in_buffer > current_mark_rows
          THEN IF got.fault # "none"
               THEN /\ error' = Fault(got.fault, Ev("call", "getGranulesToWrite", 0))
                    /\ phase' = "failed"
                    /\ columns_buffer' = 0
                    /\ UNCHANGED << current_mark, data_written, granules_written,
                                    streams_by_codec, plain_count, marks_out, data_blocks,
                                    serialized, offsets_ok >>
               ELSE /\ Outputs(writeDataBlock(Writer, got.granules))
                    /\ current_mark' = current_mark + Len(got.granules)
                    /\ columns_buffer' = 0
                    /\ UNCHANGED << error, phase >>
          ELSE /\ columns_buffer' = rows_in_buffer
               /\ UNCHANGED << current_mark, data_written, granules_written,
                               streams_by_codec, plain_count, marks_out, data_blocks,
                               serialized, offsets_ok, error, phase >>

write(index_granularity_for_block, rows) ==
    LET ig == IF compute_granularity
              THEN fillIndexGranularity(index_granularity, current_mark, columns_buffer,
                                        index_granularity_for_block, rows)
              ELSE index_granularity
        rows_in_buffer == columns_buffer + rows
        \* getMarkRows(getCurrentMark()) of a mark the plan does not have
        no_mark == current_mark >= getMarksCount(ig)
        current_mark_rows == IF no_mark THEN 0 ELSE getMarkRows(ig, current_mark)
        got == getGranulesToWrite(ig, rows_in_buffer, current_mark, FALSE)
    IN /\ index_granularity' = ig
       /\ rows_received' = rows_received + rows
       /\ UNCHANGED << config, events, checksums, granules_to_write >>
       /\ IF no_mark
          THEN /\ error' = Fault("no such mark", Ev("call", "getMarkRows", 0))
               /\ phase' = "failed"
               /\ columns_buffer' = rows_in_buffer
               /\ UNCHANGED << current_mark, data_written, granules_written,
                               streams_by_codec, plain_count, marks_out, data_blocks,
                               serialized, offsets_ok >>
          ELSE IF rows_in_buffer >= current_mark_rows
          THEN IF got.fault # "none"
               THEN /\ error' = Fault(got.fault, Ev("call", "getGranulesToWrite", 0))
                    /\ phase' = "failed"
                    /\ columns_buffer' = 0
                    /\ UNCHANGED << current_mark, data_written, granules_written,
                                    streams_by_codec, plain_count, marks_out, data_blocks,
                                    serialized, offsets_ok >>
               ELSE /\ Outputs(writeDataBlock(Writer, got.granules))
                    /\ current_mark' = current_mark + Len(got.granules)
                    /\ columns_buffer' = 0
                    /\ UNCHANGED << error, phase >>
          ELSE /\ columns_buffer' = rows_in_buffer
               /\ UNCHANGED << current_mark, data_written, granules_written,
                               streams_by_codec, plain_count, marks_out, data_blocks,
                               serialized, offsets_ok, error, phase >>

Write ==
    /\ phase = "open"
    /\ \E g \in targets, rows \in 1..MaxBlockRows :
         /\ rows_received + rows <= MaxRows
         /\ write(g, rows)
         /\ UNCHANGED input_blocks

\* ---------------------------------------------------------- fillChecksums
\* the final flush without the correction of the last mark
finalFlush_NoCorrection ==
    IF columns_buffer = 0
    THEN [fault |-> "none", w |-> Writer, ig |-> index_granularity]
    ELSE LET got == getGranulesToWrite(index_granularity, columns_buffer, current_mark, TRUE)
         IN IF got.fault # "none"
            THEN [fault |-> got.fault, w |-> Writer, ig |-> index_granularity]
            ELSE [fault |-> "none", w |-> writeDataBlock(Writer, got.granules),
                  ig |-> index_granularity]

\* the final flush of fillDataChecksums
finalFlush ==
    IF columns_buffer = 0
    THEN [fault |-> "none", w |-> Writer, ig |-> index_granularity]
    ELSE LET got == getGranulesToWrite(index_granularity, columns_buffer, current_mark, TRUE)
         IN IF got.fault # "none"
            THEN [fault |-> got.fault, w |-> Writer, ig |-> index_granularity]
            ELSE LET last == got.granules[Len(got.granules)]
                     ig == IF ~last.is_complete
                           THEN appendMark(popMark(index_granularity), last.rows_to_write)
                           ELSE index_granularity
                 IN [fault |-> "none", w |-> writeDataBlock(Writer, got.granules), ig |-> ig]

\* the trailing synthetic mark: one record per column, then a zero row count
RECURSIVE finalMarkRecords(_, _, _)
finalMarkRecords(w, mark, i) ==
    IF Computed(w) /\ i > Len(columns_list)
    THEN [w EXCEPT !.marks = Append(@, RowsField(mark, 0, Dirty(w), TRUE))]
    ELSE finalMarkRecords(
             [w EXCEPT !.marks = Append(@, MarkRecord(i, mark, w.plain, Dirty(w), TRUE))],
             mark, i + 1)

\* the final mark written whether or not a granule was written
writeFinalMark_Always(w, mark) ==
    IF with_final_mark THEN finalMarkRecords(w, mark, 1) ELSE w

writeFinalMark(w, mark) ==
    IF with_final_mark /\ w.data_written THEN finalMarkRecords(w, mark, 1) ELSE w

\* the offset assertions of fillDataChecksums, then the final mark
afterFlush(f) ==
    writeFinalMark([f.w EXCEPT !.offsets_ok = @ /\ Dirty(f.w) = {}], getMarksCount(f.ig))

\* number of bytes of the marks content
MarksBytes(marks) == U64Bytes * (Len(marks) + Cardinality({ k \in DOMAIN marks : marks[k].kind = "record" }))

MarksFileSize(marks) ==
    IF marks_compressed /\ marks # << >>
    THEN CompressedSize(0, MarksBytes(marks))
    ELSE MarksBytes(marks)

RECURSIVE uncompressedSize(_, _)
uncompressedSize(w, i) ==
    IF i > Len(stream_order) THEN 0
    ELSE w.streams[stream_order[i]].count + uncompressedSize(w, i + 1)

addToChecksums(w) ==
    ("data.bin" :> [is_compressed |-> TRUE,
                    uncompressed_size |-> uncompressedSize(w, 1),
                    file_size |-> w.plain])
    @@
    ("data.mrk" :> [is_compressed |-> marks_compressed,
                    uncompressed_size |-> IF marks_compressed THEN MarksBytes(w.marks) ELSE 0,
                    file_size |-> MarksFileSize(w.marks)])

\* the calls that seal the compressed streams, in map iteration order
RECURSIVE sealStreams(_)
sealStreams(i) ==
    IF i > Len(stream_order) THEN << >>
    ELSE << Ev("finalize", "hashing_buf", stream_order[i]),
            Ev("finalize", "compressed_buf", stream_order[i]) >> \o sealStreams(i + 1)

\* the calls with the plain output sealed before the compressed streams
fillDataChecksumsCalls_PlainFirst ==
    << Ev("finalize", "plain_hashing", 0), Ev("next", "plain_file", 0) >>
    \o sealStreams(1)
    \o (IF marks_compressed
        THEN << Ev("finalize", "marks_source_hashing", 0), Ev("finalize", "marks_compressor", 0) >>
        ELSE << >>)
    \o << Ev("finalize", "marks_file_hashing", 0),
          Ev("call", "addToChecksums", 0),
          Ev("preFinalize", "plain_file", 0), Ev("preFinalize", "marks_file", 0) >>

\* the calls of fillDataChecksums after the final mark
fillDataChecksumsCalls ==
    sealStreams(1)
    \o << Ev("finalize", "plain_hashing", 0), Ev("next", "plain_file", 0) >>
    \o (IF marks_compressed
        THEN << Ev("finalize", "marks_source_hashing", 0), Ev("finalize", "marks_compressor", 0) >>
        ELSE << >>)
    \o << Ev("finalize", "marks_file_hashing", 0),
          Ev("call", "addToChecksums", 0),
          Ev("preFinalize", "plain_file", 0), Ev("preFinalize", "marks_file", 0) >>

\* fillChecksums without the test of columns_list
fillChecksumsCalls_NoSkip ==
    fillDataChecksumsCalls
    \o (IF rewrite_primary_key THEN << Ev("call", "fillPrimaryIndexChecksums", 0) >> ELSE << >>)
    \o << Ev("call", "fillSkipIndicesChecksums", 0) >>

fillChecksumsCalls ==
    (IF columns_list # << >> THEN fillDataChecksumsCalls ELSE << >>)
    \o (IF rewrite_primary_key THEN << Ev("call", "fillPrimaryIndexChecksums", 0) >> ELSE << >>)
    \o << Ev("call", "fillSkipIndicesChecksums", 0) >>

finishDataSerializationCalls(sync) ==
    (IF sync THEN << Ev("sync", "plain_file", 0), Ev("sync", "marks_file", 0) >> ELSE << >>)
    \o << Ev("finalize", "plain_file", 0), Ev("finalize", "marks_file", 0) >>

finishCalls(sync) ==
    (IF columns_list # << >> THEN finishDataSerializationCalls(sync) ELSE << >>)
    \o (IF rewrite_primary_key THEN << Ev("call", "finishPrimaryIndexSerialization", 0) >> ELSE << >>)
    \o << Ev("call", "finishSkipIndicesSerialization", 0) >>

\* calls into the file layer, which can fail with an I/O fault
CanThrow(call) == call.op \in {"finalize", "next", "preFinalize", "sync"}

\* makes calls[i..n] in order; st is the writer state, the calls made and
\* the checksums recorded
RECURSIVE runCalls(_, _, _, _)
runCalls(st, calls, i, n) ==
    IF Computed(st.w) /\ i > n THEN st
    ELSE LET call == calls[i]
             w1 == IF call.op = "finalize" /\ call.buf = "hashing_buf"
                   THEN hashing_buf_next(st.w, call.codec)
                   ELSE st.w
             sums == IF call.buf = "addToChecksums" THEN addToChecksums(st.w) ELSE st.sums
         IN runCalls([w |-> w1, made |-> Append(st.made, call), sums |-> sums], calls, i + 1, n)

\* fillChecksums; the call number `failing` throws (0: none does)
fillChecksums(failing) ==
    LET f == finalFlush
        calls == fillChecksumsCalls
        n == IF failing = 0 THEN Len(calls) ELSE failing - 1
        start == IF columns_list # << >> THEN afterFlush(f) ELSE Writer
        st == runCalls([w |-> start, made |-> events, sums |-> checksums], calls, 1, n)
    IN /\ UNCHANGED << config, current_mark, rows_received, input_blocks,
                       granules_to_write >>
       /\ IF columns_list # << >> /\ f.fault # "none"
          THEN /\ error' = Fault(f.fault, Ev("call", "getGranulesToWrite", 0))
               /\ phase' = "failed"
               /\ columns_buffer' = 0
               /\ UNCHANGED << index_granularity, data_written, granules_written,
                               streams_by_codec, plain_count, marks_out, data_blocks,
                               serialized, offsets_ok, events, checksums >>
          ELSE /\ Outputs(st.w)
               /\ events' = st.made
               /\ checksums' = st.sums
               /\ index_granularity' = IF columns_list # << >> THEN f.ig ELSE index_granularity
               /\ columns_buffer' = IF columns_list # << >> THEN 0 ELSE columns_buffer
               /\ error' = IF failing = 0 THEN NoError ELSE Fault("I/O fault", calls[failing])
               /\ phase' = IF failing = 0 THEN "checksummed" ELSE "failed"

FillChecksums ==
    /\ phase = "open"
    /\ fillChecksums(0)

FillChecksumsFails ==
    /\ phase = "open"
    /\ \E failing \in 1..Len(fillChecksumsCalls) :
         /\ CanThrow(fillChecksumsCalls[failing])
         /\ fillChecksums(failing)

\* ----------------------------------------------------------------- finish
finish(sync, failing) ==
    LET calls == finishCalls(sync)
        n == IF failing = 0 THEN Len(calls) ELSE failing - 1
        st == runCalls([w |-> Writer, made |-> events, sums |-> checksums], calls, 1, n)
    IN /\ events' = st.made
       /\ error' = IF failing = 0 THEN NoError ELSE Fault("I/O fault", calls[failing])
       /\ phase' = IF failing = 0 THEN "finished" ELSE "failed"
       /\ UNCHANGED << config, streams_by_codec, index_granularity, current_mark,
                       columns_buffer, rows_received, input_blocks, granules_to_write,
                       data_written, granules_written, plain_count, marks_out, data_blocks, serialized, offsets_ok,
                       checksums >>

Finish ==
    /\ phase = "checksummed"
    /\ \E sync \in BOOLEAN : finish(sync, 0)

FinishFails ==
    /\ phase = "checksummed"
    /\ \E sync \in BOOLEAN : \E failing \in 1..Len(finishCalls(sync)) :
         /\ CanThrow(finishCalls(sync)[failing])
         /\ finish(sync, failing)

Next == Write \/ FillChecksums \/ FillChecksumsFails \/ Finish \/ FinishFails

Spec == Init /\ [][Next]_vars

\* ================================================================ claims
\* the final flush of fillDataChecksums has run
FinalFlushDone ==
    /\ phase \in {"checksummed", "finished", "failed"}
    /\ columns_list # << >>
    /\ error.at.buf # "getGranulesToWrite"

\* every block was given the same target granule size
FixedG == Cardinality(targets) = 1
G == CHOOSE g \in targets : TRUE

\* C1: with a fixed target G, once the final flush has run the row counts of
\* the marks of the plan sum to exactly the rows written, and when fewer than
\* G rows were written the plan is the single mark of those rows.
C1_PlanSumsToRows ==
    (FinalFlushDone /\ FixedG) =>
        /\ Sum(index_granularity) = rows_received
        /\ rows_received = 0 => index_granularity = << >>
        /\ (0 < rows_received /\ rows_received < G) => index_granularity = << rows_received >>

\* the final flush replaced the planned last mark by a short tail
C1_Witness ==
    /\ FinalFlushDone /\ FixedG
    /\ Len(index_granularity) >= 2
    /\ index_granularity[Len(index_granularity)] * 2 < G

\* C2: with a fixed target G every mark but the last has at least G/2 and
\* fewer than 2G rows; it differs from G by no more than half of G.
C2_MarksNearTarget ==
    FixedG =>
        \A k \in 1..(Len(index_granularity) - 1) :
            /\ index_granularity[k] >= G \div 2
            /\ index_granularity[k] < 2 * G
            /\ 2 * index_granularity[k] >= G
            /\ 2 * index_granularity[k] <= 3 * G

\* a final plan with a mark that is not the last and not of G rows
C2_Witness ==
    /\ FinalFlushDone /\ FixedG
    /\ \E k \in 1..(Len(index_granularity) - 1) : index_granularity[k] # G

\* C3: whenever a field of the marks file is written, and at the offset
\* assertions, no compressed stream holds bytes of an unfinished block; hence
\* no compressed block holds bytes of two columns or of two granules.
C3_WholeBlocksOnly ==
    /\ offsets_ok
    /\ \A k \in DOMAIN marks_out : marks_out[k].dirty = {}
    /\ \A k \in DOMAIN data_blocks : Cardinality(data_blocks[k].tags) = 1

\* columns sharing a stream and a column alternating between streams, over
\* two granules and the final mark
C3_Witness ==
    /\ columns_list = SchemaShared
    /\ phase = "checksummed"
    /\ granules_written >= 2
    /\ \E k \in DOMAIN marks_out : marks_out[k].final
    /\ \E j, k \in DOMAIN data_blocks :
          /\ j + 1 < k
          /\ data_blocks[j].stream = data_blocks[k].stream
          /\ data_blocks[j].tags = data_blocks[k].tags

NumColumns == Len(columns_list)
\* the fields of the marks file written for granules
GranuleFields == { k \in DOMAIN marks_out : ~marks_out[k].final }
\* the trailing synthetic mark's fields
FinalFields == { k \in DOMAIN marks_out : marks_out[k].final }
RecordsOf(fields) == { k \in fields : marks_out[k].kind = "record" }
RowCountsOf(fields) == { k \in fields : marks_out[k].kind = "rows" }
BlocksOf(column, mark) ==
    { k \in DOMAIN data_blocks : << column, mark >> \in data_blocks[k].tags }

\* C5: each granule's fields are one record (plain-output bytes so far, 0)
\* per column in schema order, then the granule's row count; a record's file
\* offset is where the first compressed block of its column and granule
\* begins, and the offsets never decrease in write order.
C5_RecordsBeforeData ==
    \A k \in GranuleFields :
        LET m == marks_out[k]
            q == (k - 1) % (NumColumns + 1)
            g == (k - 1) \div (NumColumns + 1)
        IN /\ \A j \in 1..k : j \in GranuleFields
           /\ m.mark = g
           /\ IF q < NumColumns
              THEN /\ m.kind = "record"
                   /\ m.column = q + 1
                   /\ m.block_offset = 0
                   /\ \A b \in BlocksOf(m.column, m.mark) : data_blocks[b].start >= m.file_offset
                   /\ BlocksOf(m.column, m.mark) # {} =>
                         \E b \in BlocksOf(m.column, m.mark) : data_blocks[b].start = m.file_offset
                   /\ \A j \in RecordsOf(1..k) : marks_out[j].file_offset <= m.file_offset
              ELSE /\ m.kind = "rows"
                   /\ \A e \in DOMAIN serialized :
                         serialized[e].mark = g => serialized[e].rows = m.rows

\* two granules of a schema of several columns and streams
C5_Witness ==
    /\ columns_list = SchemaShared
    /\ granules_written >= 2
    /\ \E k \in RecordsOf(GranuleFields) :
          /\ marks_out[k].mark = 1
          /\ marks_out[k].column = 3
          /\ BlocksOf(3, 1) # {}

\* C6: the trailing synthetic mark is the end of the marks file, written with
\* nothing left in the buffer: a record per column, in order, whose file
\* offset is the data file's final size and whose block offset is 0, then a
\* row count of 0; no data block ends after that offset.
C6_FinalMarkAtEnd ==
    (phase \in {"checksummed", "finished"} /\ FinalFields # {}) =>
        LET first == Len(marks_out) - NumColumns
        IN /\ FinalFields = first..Len(marks_out)
           /\ columns_buffer = 0
           /\ \A i \in 1..NumColumns :
                 LET m == marks_out[first - 1 + i]
                 IN /\ m.kind = "record"
                    /\ m.column = i
                    /\ m.block_offset = 0
                    /\ m.file_offset = checksums["data.bin"].file_size
                    /\ m.file_offset = plain_count
           /\ marks_out[Len(marks_out)].kind = "rows"
           /\ marks_out[Len(marks_out)].rows = 0
           /\ \A b \in DOMAIN data_blocks :
                 data_blocks[b].start + data_blocks[b].size <= checksums["data.bin"].file_size

\* a final mark after a final flush that wrote a short granule
C6_Witness ==
    /\ phase = "checksummed"
    /\ FinalFields # {}
    /\ NumColumns >= 2
    /\ granules_written > current_mark
    /\ plain_count > 0

\* the position of a call among the calls made, 0 if it was not made
Pos(call) == IF \E k \in DOMAIN events : events[k] = call
             THEN CHOOSE k \in DOMAIN events : events[k] = call
             ELSE 0
Made(call) == Pos(call) # 0
\* if b was made, a was made before it
Before(a, b) == Made(b) => (Made(a) /\ Pos(a) < Pos(b))
Codecs == DOMAIN streams_by_codec

\* C7: the compressed streams are sealed first, then the plain output, then
\* the marks content stream and the marks compressor when marks are
\* compressed, then the marks' outer hashing buffer; the checksums are taken
\* after all of them, and the files are finalized after that, in finish,
\* after the sync if there is one.
C7_SealOrder ==
    /\ \A c \in Codecs :
          /\ Before(Ev("finalize", "hashing_buf", c), Ev("finalize", "compressed_buf", c))
          /\ Before(Ev("finalize", "compressed_buf", c), Ev("finalize", "plain_hashing", 0))
    /\ IF marks_compressed
       THEN /\ Before(Ev("finalize", "plain_hashing", 0), Ev("finalize", "marks_source_hashing", 0))
            /\ Before(Ev("finalize", "marks_source_hashing", 0), Ev("finalize", "marks_compressor", 0))
            /\ Before(Ev("finalize", "marks_compressor", 0), Ev("finalize", "marks_file_hashing", 0))
       ELSE /\ Before(Ev("finalize", "plain_hashing", 0), Ev("finalize", "marks_file_hashing", 0))
            /\ ~Made(Ev("finalize", "marks_source_hashing", 0))
            /\ ~Made(Ev("finalize", "marks_compressor", 0))
    /\ Before(Ev("finalize", "marks_file_hashing", 0), Ev("call", "addToChecksums", 0))
    /\ Made(Ev("call", "addToChecksums", 0)) <=> DOMAIN checksums # {}
    /\ Before(Ev("call", "addToChecksums", 0), Ev("finalize", "plain_file", 0))
    /\ Before(Ev("finalize", "plain_file", 0), Ev("finalize", "marks_file", 0))
    /\ Made(Ev("finalize", "plain_file", 0)) => phase \in {"finished", "failed"}
    /\ phase = "open" => events = << >>
    /\ \A f \in {"plain_file", "marks_file"} :
          (Made(Ev("sync", f, 0)) /\ Made(Ev("finalize", f, 0)))
              => Pos(Ev("sync", f, 0)) < Pos(Ev("finalize", f, 0))
    /\ (phase \in {"checksummed", "finished"} /\ columns_list # << >>) =>
          /\ \A c \in Codecs : Made(Ev("finalize", "compressed_buf", c))
          /\ Made(Ev("call", "addToChecksums", 0))
    /\ (phase = "finished" /\ columns_list # << >>) => Made(Ev("finalize", "marks_file", 0))

\* a finished run with two compressed streams, compressed marks and a sync
C7_Witness ==
    /\ phase = "finished"
    /\ Cardinality(Codecs) = 2
    /\ marks_compressed
    /\ Made(Ev("sync", "marks_file", 0))
    /\ Made(Ev("finalize", "marks_file", 0))

FinalMarkConfigured == with_final_mark
FinalMarkWritten == with_final_mark /\ granules_written > 0 /\ columns_list # << >>

\* C4 as stated: after fillChecksums the marks file holds granules * columns
\* records and one row count per granule, plus a record per column and one
\* more row count whenever the final mark is configured.
C4_AsStated ==
    phase \in {"checksummed", "finished"} =>
        /\ Cardinality(RecordsOf(DOMAIN marks_out))
              = granules_written * NumColumns + (IF FinalMarkConfigured THEN NumColumns ELSE 0)
        /\ Cardinality(RowCountsOf(DOMAIN marks_out))
              = granules_written + (IF FinalMarkConfigured THEN 1 ELSE 0)

\* C4: after fillChecksums the marks file holds granules * columns records
\* and one row count per granule, plus a record per column and one more row
\* count if the final mark is configured, a granule has been written and the
\* column list is not empty.
C4_MarksFileFields ==
    phase \in {"checksummed", "finished"} =>
        /\ Cardinality(RecordsOf(DOMAIN marks_out))
              = granules_written * NumColumns + (IF FinalMarkWritten THEN NumColumns ELSE 0)
        /\ Cardinality(RowCountsOf(DOMAIN marks_out))
              = granules_written + (IF FinalMarkWritten THEN 1 ELSE 0)

\* several granules of several columns, and the final mark
C4_Witness ==
    /\ phase = "checksummed"
    /\ with_final_mark
    /\ granules_written >= 2
    /\ NumColumns >= 2
    /\ Cardinality(FinalFields) = NumColumns + 1

\* the finalize calls of fillDataChecksums
SealCalls ==
    { fillDataChecksumsCalls[k] : k \in { j \in DOMAIN fillDataChecksumsCalls :
                                            fillDataChecksumsCalls[j].op = "finalize" } }

\* C8: when a call of the finalize sequence fails, every other stream has
\* still been finalized when the failure reaches the caller.
C8_AllSealedDespiteFailure ==
    (error.kind = "I/O fault" /\ columns_list # << >>) =>
        \A call \in SealCalls : call = error.at \/ Made(call)

\* the output streams the constructor creates
OwnedStreams ==
    { Ev("finalize", "hashing_buf", c) : c \in Codecs }
    \cup { Ev("finalize", "compressed_buf", c) : c \in Codecs }
    \cup { Ev("finalize", "plain_hashing", 0), Ev("finalize", "plain_file", 0),
           Ev("finalize", "marks_file_hashing", 0), Ev("finalize", "marks_file", 0) }
    \cup (IF marks_compressed
          THEN { Ev("finalize", "marks_source_hashing", 0), Ev("finalize", "marks_compressor", 0) }
          ELSE {})
TimesMade(call) == Cardinality({ k \in DOMAIN events : events[k] = call })

\* C9: after write()*, fillChecksums(), finish() every output stream the
\* writer owns has been finalized exactly once, and none before the last
\* write() call.
C9_EveryStreamFinalizedOnce ==
    /\ phase = "open" => events = << >>
    /\ phase = "finished" => \A call \in OwnedStreams : TimesMade(call) = 1

\* the calls of the data step, of the primary index and of the skip indices
Rank(call) ==
    IF call.buf \in {"fillPrimaryIndexChecksums", "finishPrimaryIndexSerialization"} THEN 2
    ELSE IF call.buf \in {"fillSkipIndicesChecksums", "finishSkipIndicesSerialization"} THEN 3
    ELSE 1
\* the calls finish makes
InFinish(call) ==
    \/ call.op = "sync"
    \/ call = Ev("finalize", "plain_file", 0)
    \/ call = Ev("finalize", "marks_file", 0)
    \/ call.buf \in {"finishPrimaryIndexSerialization", "finishSkipIndicesSerialization"}
\* within fillChecksums and within finish: data, then primary, then skip
OrderDataPrimarySkip ==
    \A j, k \in DOMAIN events :
        (j < k /\ InFinish(events[j]) = InFinish(events[k]))
            => Rank(events[j]) <= Rank(events[k])
NoDataStep ==
    /\ \A k \in DOMAIN events : Rank(events[k]) # 1
    /\ DOMAIN checksums = {}

\* C10 as stated: with an empty column list the data step is skipped and
\* the primary-index and skip-index finalization both run, in that order.
C10_AsStated ==
    /\ OrderDataPrimarySkip
    /\ (columns_list = << >> /\ phase \in {"checksummed", "finished"}) =>
          /\ NoDataStep
          /\ Made(Ev("call", "fillPrimaryIndexChecksums", 0))
          /\ Made(Ev("call", "fillSkipIndicesChecksums", 0))
          /\ phase = "finished" =>
                /\ Made(Ev("call", "finishPrimaryIndexSerialization", 0))
                /\ Made(Ev("call", "finishSkipIndicesSerialization", 0))

\* C10: with an empty column list the data step is skipped, the skip-index
\* finalization runs, and the primary-index finalization runs before it
\* exactly when rewrite_primary_key is set.
C10_EmptyColumnList ==
    /\ OrderDataPrimarySkip
    /\ (columns_list = << >> /\ phase \in {"checksummed", "finished"}) =>
          /\ NoDataStep
          /\ Made(Ev("call", "fillPrimaryIndexChecksums", 0)) <=> rewrite_primary_key
          /\ Made(Ev("call", "fillSkipIndicesChecksums", 0))
          /\ phase = "finished" =>
                /\ Made(Ev("call", "finishPrimaryIndexSerialization", 0)) <=> rewrite_primary_key
                /\ Made(Ev("call", "finishSkipIndicesSerialization", 0))

\* a finished run with an empty column list and the primary key rewritten
C10_Witness ==
    /\ columns_list = << >>
    /\ phase = "finished"
    /\ rewrite_primary_key
    /\ Pos(Ev("call", "finishPrimaryIndexSerialization", 0))
          < Pos(Ev("call", "finishSkipIndicesSerialization", 0))

\* ============================================================= scenarios
\* The writer driven with target granule 100 and blocks of 50, 100 and 150
\* rows; input_blocks keeps the blocks passed so far.
ScenarioMaxRows == 200
ScenarioTargets == { 100 }
ScenarioBlocks == { 50, 100, 150 }
\* columns id (Int64) and name (String), one sub-stream each
SchemaScenario == << Col("id", << Sub("id", 1, 8) >>), Col("name", << Sub("name", 1, 3) >>) >>

InitScenario ==
    \E schema \in { SchemaSingle, SchemaScenario }, fm \in BOOLEAN, mc \in BOOLEAN,
       rpk \in BOOLEAN :
        Constructed(schema, fm, mc, rpk, ScenarioTargets)

WriteScenario ==
    /\ phase = "open"
    /\ \E g \in targets, rows \in ScenarioBlocks :
         /\ rows_received + rows <= ScenarioMaxRows
         /\ write(g, rows)
         /\ input_blocks' = Append(input_blocks, rows)

NextScenario == WriteScenario \/ FillChecksums \/ FillChecksumsFails \/ Finish \/ FinishFails

SpecScenario == InitScenario /\ [][NextScenario]_vars

\* the row-count fields of the granules in the marks file, in write order
GranuleRows ==
    LET f == SelectSeq(marks_out, LAMBDA m : m.kind = "rows" /\ ~m.final)
    IN [k \in 1..Len(f) |-> f[k].rows]

\* the run of C12: two columns, blocks of 150 then 50 rows, final flush done
Scenario12 ==
    /\ Len(columns_list) = 2
    /\ input_blocks = << 150, 50 >>
    /\ phase = "checksummed"

\* C12 as stated: the run of blocks 150 then 50 ends with plan [100, 100],
\* 2 granules, 2 row-count fields, 4 column writes and both checksum entries
C12_AsStated ==
    Scenario12 =>
        /\ index_granularity = << 100, 100 >>
        /\ granules_written = 2
        /\ Len(GranuleRows) = 2
        /\ Len(serialized) = 4
        /\ DOMAIN checksums = { "data.bin", "data.mrk" }

\* C12 amended: write(150) plans [100, 50] and flushes both granules, since
\* the 50-row remainder is at least half the target; write(50) plans a new
\* mark that the final flush shortens to 50.  The run ends with plan
\* [100, 50, 50], 3 granules, 3 row-count fields, 6 column writes and
\* checksum entries for the data and the marks file.
C12_ThreeGranules ==
    Scenario12 =>
        /\ index_granularity = << 100, 50, 50 >>
        /\ granules_written = 3
        /\ GranuleRows = << 100, 50, 50 >>
        /\ Len(serialized) = 6
        /\ DOMAIN checksums = { "data.bin", "data.mrk" }

C12_Witness ==
    /\ Scenario12
    /\ GranuleRows = << 100, 50, 50 >>

\* C13 as stated: 150 rows and the final flush leave the single mark [150]
C13_AsStated ==
    (rows_received = 150 /\ phase = "checksummed") => index_granularity = << 150 >>

\* C13 amended: with target granule 100, a block of 150 rows is planned as
\* [100, 50] (the 50-row remainder is not less than half the target, so it is
\* a mark of its own) and write() flushes both granules, leaving no tail;
\* however the 150 rows arrive in blocks of 50, 100 or 150 rows, the plan
\* after the final flush is [100, 50] and so are the row counts written.
C13_TailIsOwnMark ==
    /\ (input_blocks = << 150 >> /\ phase = "open") =>
          /\ index_granularity = << 100, 50 >>
          /\ columns_buffer = 0
          /\ granules_written = 2
    /\ (rows_received = 150 /\ phase = "checksummed") =>
          /\ index_granularity = << 100, 50 >>
          /\ GranuleRows = << 100, 50 >>

C13_Witness ==
    /\ input_blocks = << 150 >>
    /\ phase = "checksummed"
    /\ index_granularity = << 100, 50 >>

\* ==================================================== getGranulesToWrite
\* One call of getGranulesToWrite on its own: the plan, the cursor, the rows
\* of the block and last_block are any the bounds allow; a mark has at
\* least one row.
MaxMarks == 3
MaxMarkRows == 3

RECURSIVE Plans(_)
Plans(n) ==
    IF n = 0 THEN { << >> }
    ELSE Plans(n - 1) \cup { Append(p, r) : p \in { q \in Plans(n - 1) : Len(q) = n - 1 },
                                            r \in 1..MaxMarkRows }

InitGranules ==
    \E ig \in Plans(MaxMarks), block_rows \in 0..MaxRows, mark \in 0..(MaxMarks + 1),
       last_block \in BOOLEAN :
        /\ index_granularity = ig
        /\ columns_buffer = block_rows
        /\ current_mark = mark
        /\ granules_to_write = [NotCalled EXCEPT !.last_block = last_block]
        /\ columns_list = << >>
        /\ with_final_mark = FALSE
        /\ marks_compressed = FALSE
        /\ rewrite_primary_key = FALSE
        /\ targets = {}
        /\ compressed_streams = EmptyMap
        /\ streams_by_codec = EmptyMap
        /\ stream_order = << >>
        /\ rows_received = block_rows
        /\ input_blocks = << >>
        /\ data_written = FALSE
        /\ granules_written = 0
        /\ plain_count = 0
        /\ marks_out = << >>
        /\ data_blocks = << >>
        /\ serialized = << >>
        /\ offsets_ok = TRUE
        /\ events = << >>
        /\ checksums = << >>
        /\ error = NoError
        /\ phase = "open"

\* the call getGranulesToWrite(index_granularity, rows, getCurrentMark(), last_block)
GetGranules ==
    /\ granules_to_write.fault = "not called"
    /\ LET got == getGranulesToWrite(index_granularity, columns_buffer, current_mark,
                                      granules_to_write.last_block)
       IN granules_to_write' = [last_block |-> granules_to_write.last_block,
                                fault |-> got.fault, granules |-> got.granules]
    /\ UNCHANGED << config, streams_by_codec, index_granularity, current_mark,
                    columns_buffer, rows_received, input_blocks, data_written,
                    granules_written, plain_count, marks_out, data_blocks, serialized,
                    offsets_ok, events, checksums, error, phase >>

NextGranules == GetGranules

SpecGranules == InitGranules /\ [][NextGranules]_vars

\* the internal-consistency faults: a granule asked for beyond the planned
\* marks (at entry, or by the row count lookup of a later mark), and a
\* non-final flush with fewer rows than its mark needs
InternalConsistencyFaults == { "LOGICAL_ERROR mark", "no such mark", "LOGICAL_ERROR rows" }

\* rows of the j marks that follow the cursor
RowsOfNext(j) == Sum(SubSeq(index_granularity, current_mark + 1, current_mark + j))

\* the call must fail: the cursor is past the plan at entry, or rows remain
\* after j whole marks and either no mark is left or (not the last block)
\* the next mark needs more rows than remain
MustFail ==
    \/ current_mark >= Len(index_granularity)
    \/ \E j \in 0..(Len(index_granularity) - current_mark) :
          /\ columns_buffer > RowsOfNext(j)
          /\ \/ current_mark + j >= Len(index_granularity)
             \/ /\ ~granules_to_write.last_block
                /\ columns_buffer - RowsOfNext(j) < index_granularity[current_mark + j + 1]

C15_GranulesTile ==
    granules_to_write.fault = "none" =>
        LET gs == granules_to_write.granules
        IN /\ Len(gs) > 0 => gs[1].start_row = 0
           /\ \A k \in 2..Len(gs) : gs[k].start_row = gs[k - 1].start_row + gs[k - 1].rows_to_write
           /\ Sum([k \in 1..Len(gs) |-> gs[k].rows_to_write]) = columns_buffer
           /\ \A k \in 1..Len(gs) :
                LET remaining == columns_buffer - gs[k].start_row
                    in_mark == index_granularity[gs[k].mark_number + 1]
                IN /\ gs[k].mark_number = current_mark + k - 1
                   /\ gs[k].rows_to_write = Min(remaining, in_mark)
                   /\ gs[k].is_complete = (remaining >= in_mark)
                   /\ ~gs[k].is_complete => (granules_to_write.last_block /\ k = Len(gs))

\* a final flush of several granules whose last one is short
C15_Witness ==
    /\ granules_to_write.fault = "none"
    /\ Len(granules_to_write.granules) >= 2
    /\ ~granules_to_write.granules[Len(granules_to_write.granules)].is_complete

\* ========================================= target granule size per block
\* computeIndexGranularity is called for every block: a run in which it may
\* return any target of 1..MaxG for each block
InitVarG ==
    \E schema \in { SchemaSingle, SchemaNested }, fm \in BOOLEAN :
        Constructed(schema, fm, FALSE, FALSE, 1..MaxG)

SpecVarG == InitVarG /\ [][Next]_vars

\* a step of write(): it is the only step that takes rows in
WriteStep == rows_received' > rows_received
\* the rows in the buffer once write() has appended its block
BufferedAfterAdd == columns_buffer + (rows_received' - rows_received)
\* write() has handed granules to writeDataBlock
Flushed == granules_written' > granules_written
\* rows of the marks from mark (0-based) to the end of the plan ig
RowsFrom(ig, mark) == Sum(SubSeq(ig, mark + 1, Len(ig)))

C17_WrittenMarksImmutable ==
    [][ /\ current_mark <= granules_written
        /\ \A k \in 1..granules_written :
              k <= Len(index_granularity) =>
                  /\ k <= Len(index_granularity')
                  /\ index_granularity'[k] = index_granularity[k]
      ]_vars

\* a mark that follows written marks has been extended, and the final
\* flush has written a tail after the cursor
C17_Witness ==
    /\ phase = "checksummed"
    /\ current_mark >= 1
    /\ granules_written = current_mark + 1
    /\ Len(index_granularity) = granules_written
    /\ \E k \in 2..Len(index_granularity) : index_granularity[k] > MaxG

\* ============================================================ stream pool
\* the sub-streams the schema declares: << column, sub-stream >> positions
Declared ==
    UNION { { << i, k >> : k \in 1..Len(columns_list[i].subs) } : i \in 1..Len(columns_list) }
SubAt(p) == columns_list[p[1]].subs[p[2]]
Earlier(p, q) == p[1] < q[1] \/ (p[1] = q[1] /\ p[2] < q[2])
\* the first declaration of a stream name, in the order of the constructor
FirstDeclared(name) ==
    CHOOSE p \in Declared :
        /\ SubAt(p).name = name
        /\ \A q \in Declared : SubAt(q).name = name => ~Earlier(q, p)

\* C18: every declared stream name is registered and bound to the stream of
\* the codec its first declaration resolves to; the pool has one stream per
\* codec hash of those first declarations and no other; two names share a
\* stream iff these codec hashes are equal.
C18_OneStreamPerCodec ==
    /\ DOMAIN compressed_streams = { SubAt(p).name : p \in Declared }
    /\ \A name \in DOMAIN compressed_streams :
          compressed_streams[name] = SubAt(FirstDeclared(name)).codec
    /\ DOMAIN streams_by_codec = { SubAt(FirstDeclared(SubAt(p).name)).codec : p \in Declared }
    /\ \A n1 \in DOMAIN compressed_streams, n2 \in DOMAIN compressed_streams :
          (compressed_streams[n1] = compressed_streams[n2])
              <=> (SubAt(FirstDeclared(n1)).codec = SubAt(FirstDeclared(n2)).codec)

\* a name declared twice with different codecs keeps the first one, and the
\* pool has no stream for the second
C18_Witness ==
    \E p \in Declared, q \in Declared :
        /\ Earlier(p, q)
        /\ SubAt(p).name = SubAt(q).name
        /\ SubAt(p).codec # SubAt(q).codec
        /\ compressed_streams[SubAt(q).name] = SubAt(p).codec
        /\ SubAt(q).codec \notin DOMAIN streams_by_codec
        /\ granules_written > 0

\* ======================================================= no fault reachable
\* C19: with the plan computed by the writer and any target granule size
\* per block, no write() of a non-empty block and no fillChecksums ends in a
\* fault of getGranulesToWrite: the rows a write() flushes are exactly the
\* rows of the marks from the cursor to the end of the plan, and a final
\* flush with rows in the buffer finds the cursor inside the plan.
C19_NoPlanningFault ==
    [][ /\ error'.kind \notin InternalConsistencyFaults
        /\ (WriteStep /\ Flushed) =>
              BufferedAfterAdd = RowsFrom(index_granularity', current_mark)
        /\ (~WriteStep /\ phase = "open" /\ columns_list # << >> /\ columns_buffer > 0) =>
              /\ current_mark < getMarksCount(index_granularity)
              /\ columns_buffer <= RowsFrom(index_granularity, current_mark)
      ]_vars

\* blocks with different targets were flushed and the final flush wrote a tail
C19_Witness ==
    /\ phase = "checksummed"
    /\ targets = 1..MaxG
    /\ current_mark >= 2
    /\ granules_written > current_mark
    /\ \E j \in 1..current_mark, k \in 1..current_mark :
          index_granularity[j] # index_granularity[k]

\* ================================================= marks file and plan agree
\* the row ranges handed to the serialization for a column, in write order
SerializedOf(column) == SelectSeq(serialized, LAMBDA e : e.column = column)

\* C20: once the final flush has run, one granule was written per mark of
\* the plan, the k-th row count of the marks file is the rows of mark k of
\* the final plan, and for each column the serialized row ranges follow one
\* another from row 0 to the last row received, one range per mark.
C20_MarksAgreeWithPlan ==
    FinalFlushDone =>
        /\ granules_written = getMarksCount(index_granularity)
        /\ GranuleRows = index_granularity
        /\ \A i \in 1..Len(columns_list) :
              LET ranges == SerializedOf(i)
              IN /\ Len(ranges) = getMarksCount(index_granularity)
                 /\ \A k \in 1..Len(ranges) :
                       /\ ranges[k].mark = k - 1
                       /\ ranges[k].rows = getMarkRows(index_granularity, k - 1)
                       /\ ranges[k].first = IF k = 1 THEN 0
                                            ELSE ranges[k - 1].first + ranges[k - 1].rows
                 /\ Sum([k \in 1..Len(ranges) |-> ranges[k].rows]) = rows_received

\* several columns, several granules, and a last mark the final flush
\* shortened to the rows of the tail
C20_Witness ==
    /\ FinalFlushDone /\ FixedG
    /\ Len(columns_list) >= 2
    /\ granules_written >= 3
    /\ GranuleRows[Len(GranuleRows)] < G
    /\ GranuleRows = index_granularity
====
